---------------------------- MODULE Spec2Model ----------------------------
(***************************************************************************)
(* Configuration resolution of tardis: TardisConfig::init / do_init        *)
(* (tardis/src/config/config_processor.rs), the polling loop it spawns,    *)
(* and the process-wide configuration that TardisFuns::init publishes;     *)
(* beside it, TardisSearchClient::multi_search (search/search_client.rs)   *)
(* and the confirmed deletes of TardisCacheClient (cache/cache_client.rs). *)
(*                                                                         *)
(* A raw configuration tree is a function from paths (sequences of keys)   *)
(* to scalar strings whose domain is prefix-free: the dotted-key view of   *)
(* the config crate's nested tables.                                       *)
(***************************************************************************)
EXTENDS Integers, Sequences, FiniteSets, TLC

VARIABLES
    fs,         \* local directory: [def, prof], each a file state
    envTree,    \* the TARDIS-prefixed environment of the process, by tag
    remote,     \* configuration center: published documents, name -> content tag
    netUp,      \* whether the configuration center answers at all
    pc,         \* position of the application's call of init
    call,       \* arguments of the running call: [rp, profile]
    config,     \* init's local `config` (result of the last finished pass)
    error,      \* the error init is returning, "none" otherwise
    urls,       \* document names returned by fetch_conf_urls in the running pass
    netCalls,   \* network requests issued by the running call of init
    passes,     \* number of resolution passes started so far
    loops,      \* number of spawned polling-loop tasks
    tick,       \* what the last completed tick of a polling loop met
    published,  \* the process-wide configuration consumers read
    pubArgs,    \* the arguments of the call of init that resolved it
    fault,      \* the answer the running pass met in place of a 200 or 404
    sources,    \* a ConfigBuilder: the source trees added to it, in order
    cache,      \* its build: [n, tree], the tree of the first n sources
    search,     \* a search index and the last multi_search on it
    redis       \* a Redis server and a call of del_confirm or hdel_confirm on it

vars == <<fs, envTree, remote, netUp, pc, call, config, error, urls,
          netCalls, passes, loops, tick, published, pubArgs, fault, sources, cache, search, redis>>

-----------------------------------------------------------------------------
(* Bounds of the model.                                                    *)

\* resolution passes a behaviour may start
MaxPasses == 4
\* sources a ConfigBuilder may be given
MaxSources == 3
\* documents that may be published in the configuration center at once
MaxDocs == 1
\* records a search index may hold
MaxRecords == 2

-----------------------------------------------------------------------------
(* Raw trees.                                                              *)

EmptyTree == [p \in {} |-> ""]

IsPrefix(q, p) == Len(q) <= Len(p) /\ SubSeq(p, 1, Len(q)) = q

\* the paths of t below (or at) the key path pre
Under(t, pre) == {p \in DOMAIN t : IsPrefix(pre, p)}

HasKey(t, pre) == Under(t, pre) /= {}

\* the subtree of t at pre, its paths relative to pre
Sub(t, pre) ==
    LET rel(p) == SubSeq(p, Len(pre) + 1, Len(p))
    IN  [q \in {rel(p) : p \in Under(t, pre)} |-> t[pre \o q]]

\* t with every path put below pre
Graft(pre, t) == [q \in {pre \o p : p \in DOMAIN t} |-> t[SubSeq(q, Len(pre) + 1, Len(q))]]

Get(t, p, dflt) == IF p \in DOMAIN t THEN t[p] ELSE dflt

\* a later source b replaces a wholesale below each top-level key it defines
MergeWholesale(a, b) ==
    LET tops == {<<p[1]>> : p \in DOMAIN b}
        keep == {p \in DOMAIN a : \A q \in tops : ~IsPrefix(q, p)}
    IN  [p \in keep \cup DOMAIN b |-> IF p \in DOMAIN b THEN b[p] ELSE a[p]]

\* Source::collect_to of the config crate: every value of the later source b
\* is set into the cache a, tables key by key, a scalar replacing what is there
Merge(a, b) ==
    LET keep == {p \in DOMAIN a :
                    \A q \in DOMAIN b : ~IsPrefix(q, p) /\ ~IsPrefix(p, q)}
    IN  [p \in keep \cup DOMAIN b |-> IF p \in DOMAIN b THEN b[p] ELSE a[p]]

\* the cache of a build before its first source
NoCache == [n |-> 0, tree |-> EmptyTree]

RECURSIVE MergeAll(_)
\* ConfigBuilder::build: the sources in the order they were added
MergeAll(ts) ==
    IF ts = <<>> THEN EmptyTree
    ELSE Merge(MergeAll(SubSeq(ts, 1, Len(ts) - 1)), ts[Len(ts)])


-----------------------------------------------------------------------------
(* The typed result.                                                       *)

\* FrameworkConfig, the fields init and do_init read; format "" is None
DefaultFw == [app_id |-> "", cc_on |-> FALSE, cc_kind |-> "", cc_format |-> "", salt |-> ""]

\* conf.get::<FrameworkConfig>("fw"): absent fields take their defaults
FwOf(merged) ==
    LET f == Sub(merged, <<"fw">>)
    IN  [app_id    |-> Get(f, <<"app", "id">>, ""),
         cc_on     |-> HasKey(f, <<"conf_center">>),
         cc_kind   |-> Get(f, <<"conf_center", "kind">>, ""),
         cc_format |-> Get(f, <<"conf_center", "format">>, ""),
         salt      |-> Get(f, <<"adv", "salt">>, "")]

\* the cs branch is inserted after the csm entries, replacing an entry named ""
WorkspaceCsLast(merged) ==
    LET csm  == Sub(merged, <<"csm">>)
        cs   == Graft(<<"">>, Sub(merged, <<"cs">>))
        keep == {p \in DOMAIN csm : DOMAIN cs = {} \/ p[1] /= ""}
    IN  [p \in keep \cup DOMAIN cs |-> IF p \in DOMAIN cs THEN cs[p] ELSE csm[p]]

\* the csm entries are merged key by key into what the map already holds
WorkspaceMergesDefault(merged) ==
    Merge(Graft(<<"">>, Sub(merged, <<"cs">>)), Sub(merged, <<"csm">>))

\* workspace_config: the cs branch under "", then extended by the csm entries,
\* an entry of csm replacing the whole value already under its module name
Workspace(merged) ==
    LET csm  == Sub(merged, <<"csm">>)
        cs   == Graft(<<"">>, Sub(merged, <<"cs">>))
        mods == {<<p[1]>> : p \in DOMAIN csm}
        keep == {p \in DOMAIN cs : \A m \in mods : ~IsPrefix(m, p)}
    IN  [p \in keep \cup DOMAIN csm |-> IF p \in DOMAIN csm THEN csm[p] ELSE cs[p]]

NoConfig == [cs |-> EmptyTree, fw |-> DefaultFw, csPass |-> 0, fwPass |-> 0]

\* outcomes of a stage: a value, a returned TardisError, or a panic
Ok(v)      == [st |-> "ok", err |-> "none", val |-> v]
Err(kind)  == [st |-> "err", err |-> kind, val |-> NoConfig]
Panicked   == [st |-> "panic", err |-> "none", val |-> NoConfig]

\* impl From<ConfigError> for TardisError
FromConfigError(e) ==
    CASE e = "Frozen"    -> "IOError"
      [] e = "NotFound"  -> "NotFound"
      [] e = "PathParse" -> "FormatError"
      [] e = "FileParse" -> "FormatError"
      [] e = "Type"      -> "FormatError"
      [] e = "Message"   -> "Wrap"
      [] e = "Foreign"   -> "Wrap"

-----------------------------------------------------------------------------
(* Decryption of ENC(...) tokens, value by value.                          *)

SaltOk   == "0123456789abcdef"
SaltShort == "0123456789abcde"
\* salt.len(), of the salts the model uses
SaltLen(s) == CASE s = "" -> 0 [] s = SaltOk -> 16 [] s = SaltShort -> 15

EncGood == "ENC(0A1B)"
EncBad  == "ENC(zz)"
EncPadded == "ENC(QQ==)"
EncEmpty == "ENC()"
EncTrue == "ENC(74)"

\* whether the value has the form ENC(<payload>)
IsMarked(v) == v \in {EncGood, EncBad, EncPadded, EncEmpty, EncTrue}

\* the characters between ENC( and ) of a marked value
Payload(v) ==
    CASE v = EncGood   -> <<"0", "A", "1", "B">>
      [] v = EncBad    -> <<"z", "z">>
      [] v = EncPadded -> <<"Q", "Q", "=", "=">>
      [] v = EncEmpty  -> <<>>
      [] v = EncTrue   -> <<"7", "4">>

\* the class [A-Za-z0-9+/] of the pattern, of the characters the model uses
PayloadClass == {"0", "1", "4", "7", "A", "B", "Q", "z", "+", "/"}

\* whether the value holds a match of ENC\([A-Za-z0-9+/]*\)
HasToken(v) ==
    IsMarked(v) /\ \A i \in 1..Len(Payload(v)) : Payload(v)[i] \in PayloadClass

\* decrypt_ecb on the token's payload answers Ok for 0A1B, 74 and QQ==, Err
\* for zz and for the empty payload
DecryptFails(v) == v \in {EncBad, EncEmpty}
\* the plaintext of 74 is true, of the others secret
Plain(v) ==
    IF HasToken(v) /\ ~DecryptFails(v) THEN (IF v = EncTrue THEN "true" ELSE "secret")
    ELSE v

\* the tokens are decrypted before the salt is looked at
DecryptionTokensFirst(vs, salt) ==
    IF \E v \in vs : HasToken(v) /\ DecryptFails(v) THEN "panic"
    ELSE IF SaltLen(salt) /= 16 THEN "err"
    ELSE "ok"

\* decryption(text, salt) over the serialized values vs
\* (Ok(values), Err(FormatError) on a bad salt, a panic from expect)
DecryptionOutcome(vs, salt) ==
    IF SaltLen(salt) /= 16 THEN "err"
    ELSE IF \E v \in vs : HasToken(v) /\ DecryptFails(v) THEN "panic"
    ELSE "ok"

FwValues(fw) == {fw.app_id, fw.cc_kind, fw.cc_format, fw.salt}

DecryptTree(t) == [p \in DOMAIN t |-> Plain(t[p])]

DecryptFw(fw) == [app_id |-> Plain(fw.app_id), cc_on |-> fw.cc_on,
                  cc_kind |-> Plain(fw.cc_kind), cc_format |-> Plain(fw.cc_format),
                  salt |-> Plain(fw.salt)]

-----------------------------------------------------------------------------
(* The inputs: local files, environment, remote documents.                 *)

Profiles == {"", "dev"}

BaseTree ==
    (<<"cs", "x">> :> "ld") @@ (<<"cs", "db", "url">> :> "a") @@
    (<<"cs", "db", "pool">> :> "5") @@ (<<"csm", "m1", "url">> :> EncGood)

CcTree == (<<"fw", "app", "id">> :> "app") @@ (<<"fw", "conf_center", "kind">> :> "Nacos")

\* content of a local file, by the tag the model names it with
FileTree(tag) ==
    CASE tag = "plain"   -> BaseTree
      [] tag = "cc"      -> BaseTree @@ CcTree
      [] tag = "ccnoid"  -> BaseTree @@ (<<"fw", "conf_center", "kind">> :> "nacos")
      [] tag = "ccfmt"   -> BaseTree @@ CcTree @@ (<<"fw", "conf_center", "format">> :> "xml")
      [] tag = "cckind"  -> BaseTree @@ (<<"fw", "app", "id">> :> "app")
                                     @@ (<<"fw", "conf_center", "kind">> :> "etcd")
      [] tag = "salt"    -> BaseTree @@ (<<"fw", "adv", "salt">> :> SaltOk)
      [] tag = "saltbad" -> (<<"cs", "x">> :> EncBad) @@ (<<"fw", "adv", "salt">> :> SaltOk)
      [] tag = "saltpad" -> (<<"cs", "x">> :> EncPadded) @@ (<<"fw", "adv", "salt">> :> SaltOk)
      [] tag = "saltempty" -> (<<"cs", "x">> :> EncEmpty) @@ (<<"fw", "adv", "salt">> :> SaltOk)
      [] tag = "saltbool" -> BaseTree @@ (<<"fw", "adv", "salt">> :> SaltOk)
                                      @@ (<<"fw", "adv", "backtrace">> :> EncTrue)
      [] tag = "salt15"  -> BaseTree @@ (<<"fw", "adv", "salt">> :> SaltShort)
      [] tag = "salt15bad" -> (<<"cs", "x">> :> EncBad) @@ (<<"fw", "adv", "salt">> :> SaltShort)
      [] tag = "fwbad"   -> BaseTree @@ (<<"fw">> :> "oops")
      [] tag = "csmbad"  -> (<<"cs", "x">> :> "ld") @@ (<<"csm">> :> "oops")
      [] tag = "over"    -> (<<"cs", "x">> :> "lp") @@ (<<"cs", "db", "url">> :> "b")
      [] tag = "csmdef"  -> (<<"csm", "", "x">> :> "mod") @@ (<<"cs", "y">> :> "lp")

\* the local directories and environments the model starts from
Scenario(def, prof, env) == [def |-> def, prof |-> prof, env |-> env]
Scenarios ==
    {Scenario("plain", "absent", "none"), Scenario("plain", "over", "none"),
     Scenario("plain", "over", "x"),      Scenario("plain", "csmdef", "none"),
     Scenario("absent", "absent", "none"), Scenario("bad", "absent", "none"),
     Scenario("plain", "bad", "none"),
     Scenario("cc", "over", "x"),
     Scenario("ccnoid", "absent", "none"), Scenario("ccfmt", "absent", "none"),
     Scenario("cckind", "absent", "none"),
     Scenario("salt", "absent", "none"),  Scenario("saltbad", "absent", "none"),
     Scenario("salt15", "absent", "none"), Scenario("salt15bad", "absent", "none"),
     Scenario("saltpad", "absent", "none"), Scenario("saltempty", "absent", "none"),
     Scenario("saltbool", "absent", "none"),
     Scenario("fwbad", "absent", "none"), Scenario("csmbad", "absent", "none")}

\* the TARDIS_ variables of the process, as dotted keys
EnvTree(tag) ==
    CASE tag = "none" -> EmptyTree
      [] tag = "x"    -> (<<"cs", "x">> :> "env")

\* a document name <<a, b>> is the data id a-b
DocName(a, b) == <<a, b>>
PubNames == {DocName("app", "default"), DocName("dev", "default"), DocName("dev", "app")}
\* the contents a document may be published with while init calls run: the
\* first document the code requests for profile dev has two versions and a
\* malformed one, every other document one version
Contents(name) ==
    CASE name = DocName("dev", "default") -> {"v1", "v2", "bad"}
      [] OTHER                            -> {"v1"}
\* the contents a document may hold before the calls start: the second
\* document requested for profile dev may also carry a framework section
StoredContents(name) ==
    Contents(name) \cup (IF name = DocName("dev", "app") THEN {"fw"} ELSE {})

\* content of a published document: the values name the document and version
DocTree(name, tag) ==
    IF name[2] = "default"
    THEN (<<"cs", "x">> :> (IF tag = "v1" THEN "rd1" ELSE "rd2")) @@
         (<<"cs", "db", "url">> :> "r")
    ELSE IF tag = "fw"
    THEN (<<"cs", "x">> :> "rp1") @@ (<<"fw", "app", "id">> :> "other") @@
         (<<"fw", "conf_center", "kind">> :> "etcd")
    ELSE (<<"cs", "x">> :> (IF tag = "v1" THEN "rp1" ELSE "rp2"))

-----------------------------------------------------------------------------
(* Sources and their collection.                                           *)

\* lines 78-88: the local files a pass adds, in order
LocalSources(rp, profile) ==
    IF rp THEN <<"def">> \o (IF profile /= "" THEN <<"prof">> ELSE <<>>) ELSE <<>>

SrcOk(t)  == [ok |-> TRUE, err |-> "none", tree |-> t]
SrcErr(e) == [ok |-> FALSE, err |-> e, tree |-> EmptyTree]

\* File::collect of a file that is not required: a missing file is empty
CollectFileOptional(state) ==
    CASE state = "absent" -> SrcOk(EmptyTree)
      [] state = "bad"    -> SrcErr("FileParse")
      [] OTHER            -> SrcOk(FileTree(state))

\* File::collect of a required file: a missing file is the resolver's error
\* (ConfigError::Foreign), a syntax error is ConfigError::FileParse
CollectFile(state) ==
    CASE state = "absent" -> SrcErr("Foreign")
      [] state = "bad"    -> SrcErr("FileParse")
      [] OTHER            -> SrcOk(FileTree(state))

\* a document that was never published fails the fetch
CollectHttp404Fails(name, store, up) ==
    IF ~up THEN SrcErr("Foreign")
    ELSE IF name \notin DOMAIN store THEN SrcErr("Message")
    ELSE IF store[name] = "bad" THEN SrcErr("Foreign")
    ELSE SrcOk(DocTree(name, store[name]))

\* HttpSource::collect
CollectHttp(name, store, up) ==
    IF ~up THEN SrcErr("Foreign")
    ELSE IF name \notin DOMAIN store THEN SrcOk(EmptyTree)
    ELSE IF store[name] = "bad" THEN SrcErr("Foreign")
    ELSE SrcOk(DocTree(name, store[name]))

\* an answer other than the one the store decides: at is the request of the
\* pass it is given to (0: none), st its status
NoFault == [at |-> 0, st |-> "200"]
Faults == {NoFault} \cup [at : {1, 2}, st : {"500", "204"}]

\* the answer to the request for document name, request i of a pass that
\* meets fault f: no answer when the center is unreachable, else the status
Status(i, name, store, up, f) ==
    IF ~up THEN "transport"
    ELSE IF f.at = i THEN f.st
    ELSE IF name \notin DOMAIN store THEN "404" ELSE "200"

\* HttpSource::collect, lines 236-240: a status that is neither 200 nor 404
Rejected == SrcErr("Message")

\* the sources of a pass, collected in the order they were added
Collected(files, rp, profile, names, store, up, env) ==
    LET loc == LocalSources(rp, profile)
    IN  [i \in 1..Len(loc) |-> CollectFile(files[loc[i]])]
        \o [i \in 1..Len(names) |-> CollectHttp(names[i], store, up)]
        \o <<SrcOk(EnvTree(env))>>

\* the collected sources rs, nLocal of them local files, with the answer of
\* fault f given to the request it names
Faulted(rs, nLocal, f) ==
    IF f.at = 0 THEN rs ELSE [rs EXCEPT ![nLocal + f.at] = Rejected]

FirstFailure(rs) == 
    LET bad == {i \in 1..Len(rs) : ~rs[i].ok}
    IN  CHOOSE i \in bad : \A j \in bad : i <= j

\* the ConfCenterProcess implementation, with its parameters as the trait
\* declares them: the documents <app_id>-default and <app_id>-<profile>
FetchConfUrls(profile, app_id) ==
    <<DocName(app_id, "default"), DocName(app_id, profile)>>

-----------------------------------------------------------------------------
(* do_init, lines 137-200: build, split, decrypt.                          *)

Values(t) == {t[p] : p \in DOMAIN t}

\* the sections are decrypted whether a salt is set or not
AssembleDecryptsAlways(ws, fw, n) ==
    Ok([cs |-> DecryptTree(ws), fw |-> DecryptFw(fw), csPass |-> n, fwPass |-> n])

\* lines 178-200: the TardisConfig of pass n, decrypted when a salt is set
Assemble(ws, fw, n) ==
    IF fw.salt = "" THEN Ok([cs |-> ws, fw |-> fw, csPass |-> n, fwPass |-> n])
    ELSE CASE DecryptionOutcome(Values(ws), fw.salt) = "err" -> Err("FormatError")
           [] DecryptionOutcome(Values(ws), fw.salt) = "panic" -> Panicked
           [] DecryptionOutcome(FwValues(fw), fw.salt) = "panic" -> Panicked
           [] OTHER -> Ok([cs |-> DecryptTree(ws), fw |-> DecryptFw(fw),
                           csPass |-> n, fwPass |-> n])

\* the strings the config crate reads as a bool
BoolWords == {"true", "false", "1", "0", "on", "off", "yes", "no"}

\* conf.get::<FrameworkConfig>("fw"): fw.adv.backtrace, the bool line 176
\* reads, must deserialize as one
FwTyped(t) == Get(t, <<"fw", "adv", "backtrace">>, "false") \in BoolWords

\* a branch that is not in the merged tree fails the pass with the error of
\* conf.get
BuildConfigBranchesRequired(rs, n) ==
    IF \E i \in 1..Len(rs) : ~rs[i].ok
    THEN Err(FromConfigError(rs[FirstFailure(rs)].err))
    ELSE LET merged == MergeAll([i \in 1..Len(rs) |-> rs[i].tree])
         IN  IF \E b \in {"cs", "csm", "fw"} : ~HasKey(merged, <<b>>)
             THEN Err(FromConfigError("NotFound"))
             ELSE IF \/ <<"csm">> \in DOMAIN merged \/ <<"fw">> \in DOMAIN merged
                     \/ ~FwTyped(merged)
                  THEN Err(FromConfigError("Type"))
                  ELSE Assemble(Workspace(merged), FwOf(merged), n)

\* lines 140-200 on the collected sources rs of pass n
BuildConfig(rs, n) ==
    IF \E i \in 1..Len(rs) : ~rs[i].ok
    THEN Err(FromConfigError(rs[FirstFailure(rs)].err))
    ELSE LET merged == MergeAll([i \in 1..Len(rs) |-> rs[i].tree])
         IN  IF \/ <<"csm">> \in DOMAIN merged \/ <<"fw">> \in DOMAIN merged
                \/ ~FwTyped(merged)
             THEN Err(FromConfigError("Type"))
             ELSE Assemble(Workspace(merged), FwOf(merged), n)

\* the HTTP requests a build issues: one per remote source up to the first
\* source that fails
Requests(rs, nLocal, nRemote) ==
    LET bad == {i \in 1..Len(rs) : ~rs[i].ok}
        last == IF bad = {} THEN Len(rs) ELSE FirstFailure(rs)
    IN  Cardinality({i \in (nLocal + 1)..(nLocal + nRemote) : i <= last})

\* to_lowercase, on the strings the model uses
Lower(s) == CASE s = "Nacos" -> "nacos" [] s = "TOML" -> "toml" [] OTHER -> s
FormatSupported(f) == Lower(f) \in {"", "toml", "json", "yaml"}
KindSupported(k) == Lower(k) = "nacos"

\* line 113: the call hands app_id to the first parameter and profile to the
\* second
RemoteDocs(app_id, profile) == FetchConfUrls(app_id, profile)

\* the check of line 50 never fires
AppIdNeverMissing(fw) == FALSE

\* line 50: config.fw.app.id.is_empty()
AppIdMissing(fw) == fw.app_id = ""

\* a second pass is run whatever the first pass found
NeedsRemoteAlways(fw) == TRUE

\* line 49: if let Some(conf_center) = &config.fw.conf_center
NeedsRemote(fw) == fw.cc_on

\* init keeps the framework section of the first pass
SecondPassKeepsFw(first, second) ==
    [second EXCEPT !.fw = first.fw, !.fwPass = first.fwPass]

\* lines 49-59: config becomes the result of the second pass
SecondPassResult(first, second) == second

-----------------------------------------------------------------------------
(* TardisSearchClient::multi_search and the search server answering it.    *)

\* the pieces of the request text: what multi_search writes around the keys
\* and values, and what a value may hold of it
T_Head   == "{ \"query\": { \"bool\": { \"must\": ["
T_Tail   == "]}}}"
T_Open   == "{\"match\": {\""
T_Sep    == "\": \""
T_Close  == "\"}}"
T_Comma  == ","
T_Should == "], \"should\": ["
T_Quote  == "\""
Punctuation == {T_Head, T_Tail, T_Open, T_Sep, T_Close, T_Comma, T_Should, T_Quote}

IsWord(t) == t \notin Punctuation

\* a value that closes the must list and opens a should list
Inject == "1\"}}], \"should\": [{\"match\": {\"user.id\": \"1"
\* a value with a quotation mark in it
Quoted == "a\"b"

\* a key or value as format! writes it: unchanged, piece by piece
Pieces(s) ==
    CASE s = Inject -> <<"1", T_Close, T_Should, T_Open, "user.id", T_Sep, "1">>
      [] s = Quoted -> <<"a", T_Quote, "b">>
      [] OTHER      -> <<s>>

\* line 158, the closure of map: {"match": {"<k>": "<v>"}}
MatchClause(k, v) == <<T_Open>> \o Pieces(k) \o <<T_Sep>> \o Pieces(v) \o <<T_Close>>

RECURSIVE Join(_)
\* line 158, join(",")
Join(cs) ==
    IF cs = <<>> THEN <<>>
    ELSE IF Len(cs) = 1 THEN cs[1]
    ELSE cs[1] \o <<T_Comma>> \o Join(Tail(cs))

\* lines 158-159: the request text for the map q iterated in the order ord
MultiSearchQuery(q, ord) ==
    <<T_Head>> \o Join([i \in 1..Len(ord) |-> MatchClause(ord[i], q[ord[i]])]) \o <<T_Tail>>

\* the orders q.into_iter() may yield the keys of a HashMap in
Orders(S) ==
    {o \in [1..Cardinality(S) -> S] : \A i, j \in 1..Cardinality(S) : o[i] = o[j] => i = j}

\* the server reads a list of match clauses
IsClauseList(ts) ==
    \/ ts = <<>>
    \/ /\ (Len(ts) + 1) % 6 = 0
       /\ \A j \in 0..((Len(ts) + 1) \div 6 - 1) :
              /\ ts[6 * j + 1] = T_Open /\ IsWord(ts[6 * j + 2])
              /\ ts[6 * j + 3] = T_Sep  /\ IsWord(ts[6 * j + 4])
              /\ ts[6 * j + 5] = T_Close
              /\ 6 * j + 6 <= Len(ts) => ts[6 * j + 6] = T_Comma

ClausesOf(ts) ==
    {<<ts[6 * j + 2], ts[6 * j + 4]>> : j \in 0..((Len(ts) + 1) \div 6 - 1)}

\* the server reads the request text: a bool query with a must list and at
\* most one should list, or no query at all
ParseQuery(text) ==
    LET body == SubSeq(text, 2, Len(text) - 1)
        cuts == {i \in 1..Len(body) : body[i] = T_Should}
        cut == IF cuts = {} THEN Len(body) + 1 ELSE CHOOSE i \in cuts : TRUE
        must == SubSeq(body, 1, cut - 1)
        should == SubSeq(body, cut + 1, Len(body))
    IN  IF /\ Len(text) >= 2 /\ text[1] = T_Head /\ text[Len(text)] = T_Tail
           /\ Cardinality(cuts) <= 1
           /\ IsClauseList(must) /\ IsClauseList(should)
           /\ (cuts /= {} => must /= <<>> /\ should /= <<>>)
        THEN [ok |-> TRUE, must |-> ClausesOf(must), should |-> ClausesOf(should)]
        ELSE [ok |-> FALSE, must |-> {}, should |-> {}]

\* a match clause on a record whose fields hold one word each
ClauseHolds(r, c) == c[1] \in DOMAIN r /\ r[c[1]] = c[2]

\* the server's bool query: every must clause holds; should clauses beside a
\* must clause are optional
HitsOf(idx, pq) ==
    {r \in idx : \A c \in pq.must : ClauseHolds(r, c)}

\* lines 170-189, raw_search and parse_search_result: the _source of every hit,
\* an error when the server rejects the request
RawSearch(idx, text) ==
    LET pq == ParseQuery(text)
    IN  IF pq.ok THEN [st |-> "ok", hits |-> HitsOf(idx, pq)]
        ELSE [st |-> "err", hits |-> {}]

Fields == {"user.id", "user.name"}
FieldValues(k) == IF k = "user.id" THEN {"1", "2"} ELSE {"a", "b"}
Records == {r \in [Fields -> {"1", "2", "a", "b"}] : \A k \in Fields : r[k] \in FieldValues(k)}

\* the maps multi_search is called with: plain values, and for user.id also
\* values with quotation marks
QueryValues(k) == IF k = "user.id" THEN {"1", "2", Inject, Quoted} ELSE {"a", "b"}
Queries ==
    UNION {{q \in [D -> {"1", "2", "a", "b", Inject, Quoted}] :
                \A k \in D : q[k] \in QueryValues(k)} : D \in SUBSET Fields}

NoSearch == [index |-> {}, q |-> [k \in {} |-> ""], ord |-> <<>>,
             out |-> [st |-> "none", hits |-> {}]]

-----------------------------------------------------------------------------
(* TardisCacheClient: confirmed deletes.                                   *)

\* what a confirmed delete removes: a key (del_confirm) or a field of a hash
\* (hdel_confirm); the hash has a second field
Entries == {<<"k1">>, <<"h1", "f1">>, <<"h1", "f2">>}
NoEntry == <<>>

\* a server on which DEL and HDEL remove nothing
RemovedNothing(keys, e) == keys

\* DEL key / HDEL key field on the server
Removed(keys, e) == keys \ {e}

\* EXISTS key / HEXISTS key field on the server
Exists(keys, e) == e \in keys

\* an empty server and no call: pc is the await the call is at, out what the
\* last call returned; recreated records that another client has set the
\* entry since the call deleted it
NoRedis == [keys |-> {}, pc |-> "idle", arg |-> NoEntry, out |-> "none",
            recreated |-> FALSE]

-----------------------------------------------------------------------------
(* State machine.                                                          *)

NoCall == [rp |-> FALSE, profile |-> ""]
NoStore == [d \in {} |-> ""]
\* fp, up: the fingerprint and the reachability of the center at the last
\* completed tick; was: "none" before any tick, "first" after one, then "same"
\* or "changed" as the last tick met the fingerprint of the tick before it
\* or another
NoTick == [was |-> "none", fp |-> NoStore, up |-> TRUE]

Init ==
    /\ \E sc \in Scenarios : fs = [def |-> sc.def, prof |-> sc.prof] /\ envTree = sc.env
    /\ remote = NoStore
    /\ netUp = TRUE
    /\ pc = "idle"
    /\ call = NoCall
    /\ config = NoConfig
    /\ error = "none"
    /\ urls = <<>>
    /\ netCalls = 0
    /\ passes = 0
    /\ loops = 0
    /\ tick = NoTick
    /\ published = NoConfig
    /\ pubArgs = NoCall
    /\ fault = NoFault
    /\ sources = <<>>
    /\ cache = NoCache
    /\ search = NoSearch
    /\ redis = NoRedis

\* the variable is written where the environment source reads it
SetBacktracePrefixed(env, out) == IF out.st = "ok" THEN "x" ELSE env

\* line 176, env::set_var("RUST_BACKTRACE", ..): the name does not start with
\* TARDIS, so the variables Environment::with_prefix("TARDIS") reads on the
\* next pass are the ones it read on this one
SetBacktrace(env, out) == env

\* what the finished stage leaves in init's frame
Land(out, next) ==
    /\ pc' = CASE out.st = "ok" -> next [] out.st = "err" -> "err" [] OTHER -> "panic"
    /\ config' = IF out.st = "ok" THEN out.val ELSE NoConfig
    /\ error' = out.err

\* init, lines 36-45: the application calls init; the local-only pass runs
InitPass1(rp, profile) ==
    /\ pc = "idle"
    /\ passes + 2 <= MaxPasses
    /\ call' = [rp |-> rp, profile |-> profile]
    /\ passes' = passes + 1
    /\ netCalls' = 0
    /\ LET out == BuildConfig(Collected(fs, rp, profile, <<>>, remote, netUp, envTree),
                              passes + 1)
       IN  /\ Land(out, "check")
           /\ envTree' = SetBacktrace(envTree, out)
    /\ fault' = NoFault
    /\ UNCHANGED <<fs, remote, netUp, urls, loops,
                   tick, published, pubArgs, sources, cache, search, redis>>

\* init, lines 49-59: is a second pass needed, and may it run
InitCheck ==
    /\ pc = "check"
    /\ IF NeedsRemote(config.fw)
       THEN IF AppIdMissing(config.fw)
            THEN /\ pc' = "err" /\ error' = "FormatError" /\ config' = NoConfig
            ELSE /\ pc' = "urls" /\ UNCHANGED <<error, config>>
       ELSE /\ pc' = "finish" /\ UNCHANGED <<error, config>>
    /\ UNCHANGED <<fs, envTree, remote, netUp, call, urls, netCalls,
                   passes, loops, tick, published, pubArgs, fault, sources, cache, search, redis>>

\* a pass that never spawns the polling task
SpawnLoopSkipped(n) == n

\* lines 121-133: tokio::spawn adds one polling task to the running ones;
\* the JoinHandle is dropped, so nothing ever aborts it
SpawnLoop(n) == n + 1

\* do_init, lines 93-134: format, kind, fetch_conf_urls, spawn of the loop
DoInitRemote ==
    /\ pc = "urls"
    /\ passes' = passes + 1
    /\ IF ~FormatSupported(config.fw.cc_format) \/ ~KindSupported(config.fw.cc_kind)
       THEN /\ pc' = "err" /\ error' = "FormatError" /\ config' = NoConfig
            /\ UNCHANGED <<urls, netCalls, loops>>
       ELSE /\ netCalls' = netCalls + 1
            /\ IF ~netUp
               THEN /\ pc' = "err" /\ error' = "IOError" /\ config' = NoConfig
                    /\ UNCHANGED <<urls, loops>>
               ELSE /\ urls' = RemoteDocs(config.fw.app_id, call.profile)
                    /\ loops' = SpawnLoop(loops)
                    /\ pc' = "build"
                    /\ UNCHANGED <<error, config>>
    /\ UNCHANGED <<fs, envTree, remote, netUp, call, tick, published, pubArgs, fault, sources, cache, search, redis>>

\* do_init, lines 137-200 of the remote-augmented pass; f is the answer the
\* center gives to one of the requests in place of 200 or 404
DoInitBuild(f) ==
    /\ pc = "build"
    /\ netUp \/ f = NoFault
    /\ LET nLocal == Len(LocalSources(call.rp, call.profile))
           rs == Faulted(Collected(fs, call.rp, call.profile, urls, remote, netUp, envTree),
                         nLocal, f)
           out == BuildConfig(rs, passes)
       IN  /\ Land(IF out.st = "ok" THEN Ok(SecondPassResult(config, out.val)) ELSE out,
                   "finish")
           /\ netCalls' = netCalls + Requests(rs, nLocal, Len(urls))
           /\ fault' = IF f.at <= Requests(rs, nLocal, Len(urls)) THEN f ELSE NoFault
           /\ envTree' = SetBacktrace(envTree, out)
    /\ urls' = <<>>
    /\ UNCHANGED <<fs, remote, netUp, call, passes, loops,
                   tick, published, pubArgs, sources, cache, search, redis>>

\* init, lines 62-71: TardisLocale::init, then Ok(config)
InitFinish(localeOk) ==
    /\ pc = "finish"
    /\ IF call.rp /\ ~localeOk
       THEN /\ pc' = "err" /\ error' = "Locale" /\ config' = NoConfig
       ELSE /\ pc' = "ok" /\ UNCHANGED <<error, config>>
    /\ UNCHANGED <<fs, envTree, remote, netUp, call, urls, netCalls,
                   passes, loops, tick, published, pubArgs, fault, sources, cache, search, redis>>

\* TardisFuns::init on Ok: the returned configuration replaces the process-wide one
PublishConfig ==
    /\ pc = "ok"
    /\ published' = config
    /\ pubArgs' = call
    /\ pc' = "idle"
    /\ config' = NoConfig
    /\ call' = NoCall
    /\ netCalls' = 0
    /\ fault' = NoFault
    /\ UNCHANGED <<fs, envTree, remote, netUp, error, urls, passes,
                   loops, tick, sources, cache, search, redis>>

\* TardisFuns::init on Err: the error goes to the caller, nothing is published
ReturnError ==
    /\ pc = "err"
    /\ pc' = "idle"
    /\ error' = "none"
    /\ call' = NoCall
    /\ netCalls' = 0
    /\ fault' = NoFault
    /\ UNCHANGED <<fs, envTree, remote, netUp, config, urls, passes,
                   loops, tick, published, pubArgs, sources, cache, search, redis>>

Published(store) == Cardinality(DOMAIN store)

\* publish_config of the management client: document d now holds content c
RemotePublish(d, c) ==
    /\ d \in DOMAIN remote \/ Published(remote) < MaxDocs
    /\ remote' = [x \in DOMAIN remote \cup {d} |-> IF x = d THEN c ELSE remote[x]]
    /\ remote' /= remote
    /\ UNCHANGED <<fs, envTree, netUp, pc, call, config, error, urls,
                   netCalls, passes, loops, tick, published, pubArgs, fault, sources, cache, search, redis>>

\* delete_config of the management client
RemoteDelete(d) ==
    /\ d \in DOMAIN remote
    /\ remote' = [x \in DOMAIN remote \ {d} |-> remote[x]]
    /\ UNCHANGED <<fs, envTree, netUp, pc, call, config, error, urls,
                   netCalls, passes, loops, tick, published, pubArgs, fault, sources, cache, search, redis>>

\* the configuration center becomes unreachable, or reachable again
NetToggle ==
    /\ netUp' = ~netUp
    /\ UNCHANGED <<fs, envTree, remote, pc, call, config, error, urls,
                   netCalls, passes, loops, tick, published, pubArgs, fault, sources, cache, search, redis>>

\* the content hash of the configuration center: equal exactly for equal content
Fingerprint(store) == store

\* the record of one more completed tick
Ticked(t, store, up) ==
    [was |-> CASE t.was = "none" -> "first"
               [] t.fp = Fingerprint(store) -> "same"
               [] OTHER -> "changed",
     fp |-> Fingerprint(store), up |-> up]

\* the body asks the center for the documents
LoopBodyFetches(n) == n + 1

\* lines 125-131, the body of the loop after its sleep: every statement is
\* commented out, the n requests issued so far stay n
LoopBody(n) == n

\* lines 123-132, one iteration of a polling loop: its sleep elapses, the
\* body runs and the loop is back at its sleep, its only point of suspension
LoopTick ==
    /\ loops > 0
    /\ tick' = Ticked(tick, remote, netUp)
    /\ netCalls' = LoopBody(netCalls)
    /\ UNCHANGED <<fs, envTree, remote, netUp, pc, call, config, error, urls,
                   passes, loops, published, pubArgs, fault, sources, cache, search, redis>>

Next ==
    \/ \E rp \in BOOLEAN, profile \in Profiles : InitPass1(rp, profile)
    \/ InitCheck
    \/ DoInitRemote
    \/ \E f \in Faults : DoInitBuild(f)
    \/ \E localeOk \in BOOLEAN : InitFinish(localeOk)
    \/ PublishConfig
    \/ ReturnError
    \/ \E d \in PubNames : \E c \in Contents(d) : RemotePublish(d, c)
    \/ \E d \in PubNames : RemoteDelete(d)
    \/ NetToggle
    \/ LoopTick

Spec == Init /\ [][Next]_vars

\* the stores the configuration center may hold
Stores ==
    {st \in UNION {[D -> {"v1", "v2", "bad", "fw"}] : D \in SUBSET PubNames} :
        /\ Published(st) <= MaxDocs
        /\ \A d \in DOMAIN st : st[d] \in StoredContents(d)}

\* calls of init over a configuration center whose content does not change
\* while they run
PassInit ==
    /\ \E sc \in Scenarios : fs = [def |-> sc.def, prof |-> sc.prof] /\ envTree = sc.env
    /\ remote \in Stores
    /\ netUp \in BOOLEAN
    /\ pc = "idle"
    /\ call = NoCall
    /\ config = NoConfig
    /\ error = "none"
    /\ urls = <<>>
    /\ netCalls = 0
    /\ passes = 0
    /\ loops = 0
    /\ tick = NoTick
    /\ published = NoConfig
    /\ pubArgs = NoCall
    /\ fault = NoFault
    /\ sources = <<>>
    /\ cache = NoCache
    /\ search = NoSearch
    /\ redis = NoRedis

PassNext ==
    \/ \E rp \in BOOLEAN, profile \in Profiles : InitPass1(rp, profile)
    \/ InitCheck
    \/ DoInitRemote
    \/ \E f \in Faults : DoInitBuild(f)
    \/ \E localeOk \in BOOLEAN : InitFinish(localeOk)
    \/ PublishConfig
    \/ ReturnError
    \/ NetToggle

PassSpec == PassInit /\ [][PassNext]_vars

-----------------------------------------------------------------------------
(* A configuration center that may leave a request without an answer.      *)

\* HttpSource::collect, line 225: request i of the running pass is sent and
\* reqwest::get(..).await waits for the answer; the pass is at that await
\* until the center answers
CollectStalls(i) ==
    /\ pc = "build"
    /\ netUp
    /\ LET nLocal == Len(LocalSources(call.rp, call.profile))
           rs == Collected(fs, call.rp, call.profile, urls, remote, netUp, envTree)
       IN  i <= Requests(rs, nLocal, Len(urls))
    /\ pc' = "wait"
    /\ netCalls' = netCalls + i
    /\ fault' = [at |-> i, st |-> "stall"]
    /\ UNCHANGED <<fs, envTree, remote, netUp, call, config, error, urls, passes,
                   loops, tick, published, pubArgs, sources, cache, search, redis>>

StallNext ==
    \/ PassNext
    \/ \E i \in {1, 2} : CollectStalls(i)

\* calls of init over a conf-default that enables the center
StallInit ==
    /\ PassInit
    /\ fs = [def |-> "cc", prof |-> "over"]

\* the build of a remote-augmented pass moves on: a request is left waiting,
\* or all are answered and the build ends
BuildMoves ==
    \/ \E i \in {1, 2} : CollectStalls(i)
    \/ \E f \in Faults : DoInitBuild(f)

\* the tasks of the runtime are scheduled: a call of init that can take its
\* next step takes it
StallSpec ==
    /\ StallInit
    /\ [][StallNext]_vars
    /\ WF_vars(InitCheck)
    /\ WF_vars(DoInitRemote)
    /\ WF_vars(BuildMoves)
    /\ WF_vars(\E localeOk \in BOOLEAN : InitFinish(localeOk))
    /\ WF_vars(PublishConfig)
    /\ WF_vars(ReturnError)

-----------------------------------------------------------------------------
(* A ConfigBuilder on its own: sources are added, then build collects them. *)

\* the key paths of the source trees: a leaf, and a nested map or a scalar
\* in its place
TreePaths == {<<"a">>, <<"m">>, <<"m", "k">>, <<"m", "l">>}

\* the sets of paths a tree may hold: no path along another
TreeDomains ==
    {D \in SUBSET TreePaths : \A p, q \in D : p /= q => ~IsPrefix(p, q)}

\* the i-th source with leaves at D: its values name it
SourceTree(D, i) == [p \in D |-> ToString(i)]

mainVars == <<fs, envTree, remote, netUp, pc, call, config, error, urls,
              netCalls, passes, loops, tick, published, pubArgs, fault, search, redis>>

\* lines 75-139: conf.add_source
AddSource(D) ==
    /\ cache.n = 0
    /\ Len(sources) < MaxSources
    /\ sources' = Append(sources, SourceTree(D, Len(sources) + 1))
    /\ UNCHANGED <<mainVars, cache>>

\* line 140, conf.build(): the next source is collected into the cache
CollectNext ==
    /\ cache.n < Len(sources)
    /\ cache' = [n |-> cache.n + 1, tree |-> Merge(cache.tree, sources[cache.n + 1])]
    /\ UNCHANGED <<mainVars, sources>>

MergeNext ==
    \/ \E D \in TreeDomains : AddSource(D)
    \/ CollectNext

\* an empty builder beside a process that has not called init
MergeInit ==
    /\ Init
    /\ fs = [def |-> Scenario("plain", "absent", "none").def,
              prof |-> Scenario("plain", "absent", "none").prof]

MergeSpec == MergeInit /\ [][MergeNext]_vars

-----------------------------------------------------------------------------
(* A search client on its own index.                                       *)

configVars == <<fs, envTree, remote, netUp, pc, call, config, error, urls,
                netCalls, passes, loops, tick, published, pubArgs, fault,
                sources, cache, redis>>

\* lines 83-93, create_record: the record is in the index
CreateRecord(r) ==
    /\ r \notin search.index
    /\ Cardinality(search.index) < MaxRecords
    /\ search' = [search EXCEPT !.index = @ \cup {r}]
    /\ UNCHANGED configVars

\* lines 157-161, multi_search(index_name, q), the map iterated in order ord
MultiSearch(q, ord) ==
    /\ search' = [search EXCEPT !.q = q, !.ord = ord,
                                !.out = RawSearch(search.index, MultiSearchQuery(q, ord))]
    /\ UNCHANGED configVars

SearchNext ==
    \/ \E r \in Records : CreateRecord(r)
    \/ \E q \in Queries : \E ord \in Orders(DOMAIN q) : MultiSearch(q, ord)

SearchSpec == MergeInit /\ [][SearchNext]_vars

-----------------------------------------------------------------------------
(* Vocabulary of the properties.                                           *)

Max(S) == CHOOSE x \in S : \A y \in S : y <= x

\* a step of init that ends a resolution pass with a result
PassDone == (pc = "idle" /\ pc' = "check") \/ (pc = "build" /\ pc' = "finish")

\* a completed iteration of a polling loop that left a trace
TickStep == tick' /= tick

\* the trees of the sources the ending pass collected, lowest precedence first
PassTrees ==
    LET rs == Collected(fs, call'.rp, call'.profile,
                        IF pc = "build" THEN urls ELSE <<>>, remote, netUp, envTree)
    IN  [i \in 1..Len(rs) |-> rs[i].tree]

\* no source holds a table where another holds a scalar at or along path p
NoClash(ts, p) ==
    \A j \in 1..Len(ts) : \A q \in DOMAIN ts[j] :
        q /= p => ~IsPrefix(q, p) /\ ~IsPrefix(p, q)

Defines(ts, p) == {j \in 1..Len(ts) : p \in DOMAIN ts[j]}

\* where the workspace configuration holds the leaf at path p of the cs branch
InDefault(p) == <<"">> \o Tail(p)

\* the cs branch reaches the result as merged: no salt, no csm entry named ""
CsAsMerged(ts, cfg) ==
    /\ cfg.fw.salt = ""
    /\ \A j \in 1..Len(ts) : ~HasKey(ts[j], <<"csm", "">>)

SameContent(a, b) == a.cs = b.cs /\ a.fw = b.fw

\* what init returns for these arguments over the local files, the
\* environment and the store, the center being reachable
Resolved(rp, profile, store) ==
    LET first == BuildConfig(Collected(fs, rp, profile, <<>>, store, TRUE, envTree), 1)
    IN  IF first.st /= "ok" \/ ~NeedsRemote(first.val.fw) THEN first
        ELSE IF AppIdMissing(first.val.fw)
                \/ ~FormatSupported(first.val.fw.cc_format)
                \/ ~KindSupported(first.val.fw.cc_kind)
             THEN Err("FormatError")
             ELSE BuildConfig(Collected(fs, rp, profile,
                                        RemoteDocs(first.val.fw.app_id, profile),
                                        store, TRUE, envTree), 2)

-----------------------------------------------------------------------------
(* C1..C10.                                                                *)

\* the sources of a pass as the precedence list names them: conf-default,
\* conf-<profile>, <app-id>-default, <app-id>-<profile>, environment
NamedTrees ==
    LET loc == LocalSources(call'.rp, call'.profile)
        doc(d) == IF d \in DOMAIN remote THEN DocTree(d, remote[d]) ELSE EmptyTree
        rem == IF pc = "build"
               THEN <<doc(DocName(config.fw.app_id, "default")),
                      doc(DocName(config.fw.app_id, call.profile))>>
               ELSE <<>>
    IN  [i \in 1..Len(loc) |-> FileTree(fs[loc[i]])] \o rem \o <<EnvTree(envTree)>>

NamedDocsWellFormed ==
    pc = "build" =>
        \A d \in {DocName(config.fw.app_id, "default"),
                  DocName(config.fw.app_id, call.profile)} :
            d \in DOMAIN remote => remote[d] /= "bad"

\* C1: at the end of every pass, each workspace key that several of the
\* sources local default, local profile, remote <app-id>-default, remote
\* <app-id>-<profile>, environment define holds the value of the last of
\* them that defines it.
C1_HighestNamedSourceWins ==
    [][(PassDone /\ NamedDocsWellFormed) =>
        LET ts == NamedTrees
            cs == config'.cs
        IN  CsAsMerged(ts, config') =>
              \A i \in 1..Len(ts) : \A p \in DOMAIN ts[i] :
                  (p[1] = "cs" /\ NoClash(ts, p)) =>
                      /\ InDefault(p) \in DOMAIN cs
                      /\ cs[InDefault(p)] = ts[Max(Defines(ts, p))][p]
      ]_vars

\* C2: at the end of every pass, a nested map of the cs branch that several
\* collected sources define holds the union of their keys: each leaf holds
\* the value of the last source that defines it, a leaf only an earlier
\* source defines is kept, and no other key appears.
C2_NestedMapsMergeByLeaf ==
    [][PassDone =>
        LET ts == PassTrees
            cs == config'.cs
        IN  CsAsMerged(ts, config') =>
              /\ \A i \in 1..Len(ts) : \A p \in DOMAIN ts[i] :
                    (p[1] = "cs" /\ Len(p) >= 3 /\ NoClash(ts, p)) =>
                        /\ InDefault(p) \in DOMAIN cs
                        /\ cs[InDefault(p)] = ts[Max(Defines(ts, p))][p]
              /\ \A q \in DOMAIN cs :
                    (q[1] = "" /\ Len(q) >= 3) => Defines(ts, <<"cs">> \o Tail(q)) /= {}
      ]_vars

\* C2 witness: a pass over conf-default {db: {url: a, pool: 5}} and
\* conf-dev {db: {url: b}} has ended with {db: {url: b, pool: 5}}
C2_Witness ==
    /\ pc = "check" /\ call = [rp |-> TRUE, profile |-> "dev"]
    /\ fs = [def |-> "plain", prof |-> "over"]
    /\ Get(config.cs, <<"", "db", "url">>, "") = "b"
    /\ Get(config.cs, <<"", "db", "pool">>, "") = "5"

\* C3: init ends with Ok and the whole result of one pass, or with the first
\* error and no configuration; a failing stage never ends it any other way.
C3_OkOrFirstError ==
    /\ pc /= "panic"
    /\ pc = "ok" => config.csPass = config.fwPass /\ config.csPass > 0
    /\ pc = "err" => config = NoConfig /\ error /= "none"

\* C4: the tick of the loop that meets a fingerprint other than the one last
\* met leaves the process-wide configuration equal to what resolution of the
\* changed content gives, when that resolution succeeds.
C4_ReloadReachesConsumers ==
    [][(/\ TickStep /\ loops = 1 /\ tick.was /= "none"
        /\ Fingerprint(remote) /= tick.fp
        /\ netUp /\ published.csPass > 0
        /\ Resolved(pubArgs.rp, pubArgs.profile, remote).st = "ok") =>
        SameContent(published', Resolved(pubArgs.rp, pubArgs.profile, remote).val)
      ]_vars

\* C5: over ticks that meet the fingerprints h1, h1, h2, the tick that meets
\* h2 runs one resolution pass, and a tick that meets the fingerprint of the
\* tick before it runs none.
C5_OneReResolution ==
    [][(TickStep /\ loops = 1) =>
        /\ (tick.was = "same" /\ Fingerprint(remote) /= tick.fp) => passes' = passes + 1
        /\ (tick.was /= "none" /\ Fingerprint(remote) = tick.fp) => passes' = passes
      ]_vars

\* some call of init over the local files finds a configuration center enabled
CenterEnabled ==
    \E rp \in BOOLEAN, profile \in Profiles :
        LET first == BuildConfig(Collected(fs, rp, profile, <<>>, NoStore, TRUE, envTree), 1)
        IN  first.st = "ok" /\ first.val.fw.cc_on

\* C6: at most one polling loop exists, and only with a center enabled.
C6_AtMostOneLoop == loops <= 1 /\ (loops = 1 => CenterEnabled)

C9_RetriesOnNextTick ==
    [][(TickStep /\ loops = 1 /\ tick.was /= "none" /\ ~tick.up) =>
        netCalls' > netCalls]_vars

\* the step of init that follows a first pass whose framework section enables a
\* center and has an empty app id
EmptyAppIdStep ==
    pc = "check" /\ pc' /= "check" /\ config.fw.cc_on /\ config.fw.app_id = ""

-----------------------------------------------------------------------------
(* C11..C20.                                                               *)

\* the step of init that follows its first pass
AfterFirstPass == pc = "check" /\ pc' /= "check"

\* the workspace of a remote-augmented pass holds the environment's value
\* where the environment defines a leaf of the cs branch, else the value of
\* the last requested document that defines it
RemoteBetweenLocalAndEnv ==
    LET env == EnvTree(envTree)
        docs == [i \in 1..Len(urls) |->
                    IF urls[i] \in DOMAIN remote THEN DocTree(urls[i], remote[urls[i]])
                    ELSE EmptyTree]
    IN  /\ \A p \in DOMAIN env :
              p[1] = "cs" => Get(config'.cs, InDefault(p), "") = env[p]
        /\ \A i \in 1..Len(docs) : \A p \in DOMAIN docs[i] :
              (/\ p[1] = "cs" /\ p \notin DOMAIN env
               /\ \A j \in (i + 1)..Len(docs) : p \notin DOMAIN docs[j])
                  => Get(config'.cs, InDefault(p), "") = docs[i][p]

\* C11 as stated: the first pass of init is local-only; a second pass is run
\* exactly when the first pass found a configuration center, and without one
\* init issues no request.
C11_SecondPassIffCenter ==
    [][/\ (pc = "idle" /\ pc' /= "idle") =>
              passes' = passes + 1 /\ urls' = <<>> /\ netCalls' = 0
       /\ AfterFirstPass => (pc' = "urls" <=> config.fw.cc_on)
       /\ (AfterFirstPass /\ ~config.fw.cc_on) => pc' = "finish" /\ netCalls' = 0
      ]_vars

\* C11 amended: the first pass of init is local-only; a second pass, which
\* layers the remote documents between the local files and the environment,
\* is run exactly when the first pass found a configuration center and a
\* non-empty app id; without a center init issues no request and runs no
\* further pass.
C11_SecondPassIffCenterAndAppId ==
    [][/\ (pc = "idle" /\ pc' /= "idle") =>
              passes' = passes + 1 /\ urls' = <<>> /\ netCalls' = 0
       /\ AfterFirstPass =>
              (pc' = "urls" <=> (config.fw.cc_on /\ config.fw.app_id /= ""))
       /\ (AfterFirstPass /\ ~config.fw.cc_on) => pc' = "finish" /\ netCalls' = 0
       /\ (pc = "urls" /\ pc' /= "urls") => passes' = passes + 1
       /\ (pc = "build" /\ pc' = "finish" /\ config'.fw.salt = "") =>
              RemoteBetweenLocalAndEnv
       /\ pc = "finish" => passes' = passes /\ netCalls' = netCalls
      ]_vars

\* C11 witness: a second pass over a published document has ended, the
\* document's value above the local files' and the environment's above both
C11_Witness ==
    /\ pc = "finish" /\ config.fw.cc_on /\ config.csPass = passes
    /\ Get(config.cs, <<"", "db", "url">>, "") = "r"
    /\ Get(config.cs, <<"", "x">>, "") = "env"

\* C12: a call of init that reads a directory without conf-default ends with
\* an error of the NotFound kind.
C12_MissingDefaultIsNotFound ==
    (call.rp /\ fs.def = "absent" /\ pc \notin {"idle", "check"}) =>
        (pc = "err" /\ error = "NotFound")

\* the requested documents that are published
Answered(names, store) == SelectSeq(names, LAMBDA d : d \in DOMAIN store)

\* what the requests of the ending remote-augmented pass were answered with,
\* "unsent" for a request the pass did not reach
Answers ==
    [i \in 1..Len(urls) |->
        IF i > netCalls' - netCalls THEN "unsent"
        ELSE Status(i, urls[i], remote, netUp, fault')]

BuildEnds == pc = "build" /\ pc' /= "build"

\* C13: a remote-augmented pass in which a requested document answers 404
\* and the others 200 ends as the pass over the remaining sources ends: the
\* 404 contributes nothing and is no failure; with every requested document
\* answering 404 the pass succeeds with the content of the local-only pass.
C13_NotFoundDocumentIsEmpty ==
    [][(/\ BuildEnds
        /\ (\E i \in 1..Len(urls) : Answers[i] = "404")
        /\ (\A j \in 1..Len(urls) : Answers[j] \in {"200", "404"})) =>
        LET rest == BuildConfig(Collected(fs, call.rp, call.profile,
                                          Answered(urls, remote), remote, netUp, envTree),
                                passes)
        IN  /\ rest.st = "ok" => pc' = "finish" /\ SameContent(config', rest.val)
            /\ rest.st = "err" => pc' = "err" /\ error' = rest.err
            /\ Answered(urls, remote) = <<>> =>
                  pc' = "finish" /\ SameContent(config', config)
      ]_vars

\* C13 witness: a second pass has ended with a result while no document was
\* published, after the request for the urls and one request per document
C13_Witness ==
    /\ pc = "finish" /\ config.fw.cc_on /\ config.csPass = passes
    /\ remote = NoStore /\ fault = NoFault /\ netCalls = 3
    /\ Get(config.cs, <<"", "db", "url">>, "") \in {"a", "b"}

\* C14: a remote-augmented pass in which a request gets no answer or a
\* status that is neither 2xx nor 404 ends with an error of the IOError kind;
\* a pass whose requests are all answered 2xx or 404, with well-formed
\* content, ends with a result.
C14_FetchFailureIsIOError ==
    [][BuildEnds =>
        /\ (\E i \in 1..Len(urls) : Answers[i] \in {"transport", "500"}) =>
              pc' = "err" /\ error' = "IOError"
        /\ (\A i \in 1..Len(urls) :
                /\ Answers[i] \in {"200", "204", "404"}
                /\ (urls[i] \in DOMAIN remote => remote[urls[i]] /= "bad")) =>
              pc' = "finish"
      ]_vars

\* the salt the typed framework section of the starting first pass holds,
\* "" when the pass ends before it has one
PassSalt ==
    LET rs == Collected(fs, call'.rp, call'.profile, <<>>, remote, netUp, envTree)
        merged == MergeAll([i \in 1..Len(rs) |-> rs[i].tree])
    IN  IF (\E i \in 1..Len(rs) : ~rs[i].ok) \/ <<"fw">> \in DOMAIN merged THEN ""
        ELSE FwOf(merged).salt

FirstPassEnds == pc = "idle" /\ pc' /= "idle"

PassValues ==
    LET rs == Collected(fs, call'.rp, call'.profile, <<>>, remote, netUp, envTree)
        merged == MergeAll([i \in 1..Len(rs) |-> rs[i].tree])
    IN  Values(Workspace(merged)) \cup FwValues(FwOf(merged))

\* C16: a pass with a salt of 16 bytes in which a token of a value does not
\* decrypt ends with an error returned by init and with no configuration.
C16_DecryptFailureIsTypedError ==
    [][(/\ FirstPassEnds /\ SaltLen(PassSalt) = 16
        /\ \E v \in PassValues : HasToken(v) /\ DecryptFails(v)) =>
        pc' = "err" /\ error' /= "none" /\ config' = NoConfig]_vars

\* C17: a configuration that decryption with a salt of 16 bytes has produced
\* holds no value of the form ENC(<payload>).
C17_NoMarkedTokenSurvives ==
    (pc \in {"check", "finish", "ok"} /\ SaltLen(config.fw.salt) = 16) =>
        \A v \in Values(config.cs) \cup FwValues(config.fw) : ~IsMarked(v)

\* C18: a pass that ends with a result and has no salt returns the workspace
\* and framework sections as deserialized, ENC(...) values included; a pass
\* that ends with a result and has a salt returns them decrypted; a first
\* pass with a salt that is not 16 bytes long or with a token that does not
\* decrypt does not end with a result.
C18_DecryptionIffSalt ==
    [][(pc \in {"idle", "build"} /\ pc' /= pc) =>
        LET rs == Collected(fs, call'.rp, call'.profile,
                            IF pc = "build" THEN urls ELSE <<>>, remote, netUp, envTree)
            merged == MergeAll([i \in 1..Len(rs) |-> rs[i].tree])
            fw == FwOf(merged)
            ws == Workspace(merged)
            typed == (\A i \in 1..Len(rs) : rs[i].ok) /\ <<"fw">> \notin DOMAIN merged
        IN  /\ (pc' \in {"check", "finish"} /\ fw.salt = "") =>
                  config'.cs = ws /\ config'.fw = fw
            /\ (pc' \in {"check", "finish"} /\ fw.salt /= "") =>
                  config'.cs = DecryptTree(ws) /\ config'.fw = DecryptFw(fw)
            /\ (/\ pc = "idle" /\ typed /\ fw.salt /= ""
                /\ \/ SaltLen(fw.salt) /= 16
                   \/ \E v \in Values(ws) \cup FwValues(fw) : HasToken(v) /\ DecryptFails(v)) =>
                  pc' /= "check"
      ]_vars

\* C18 witness: a pass without a salt has ended with a value ENC(0A1B) as the
\* file holds it
C18_Witness ==
    /\ pc = "check" /\ config.fw.salt = ""
    /\ Get(config.cs, <<"m1", "url">>, "") = EncGood

\* C18 witness of the other side: a pass with a salt has ended with that
\* value decrypted
C18_WitnessSalt ==
    /\ pc = "check" /\ config.fw.salt = SaltOk
    /\ Get(config.cs, <<"m1", "url">>, "") = "secret"

\* C19: a first pass ends as decryption of the merged tree followed by
\* deserialization of the framework section ends: when the salt is 16 bytes
\* long, every token decrypts and the decrypted framework section is well
\* typed, the pass ends with a result.
C19_DecryptBeforeTyping ==
    [][FirstPassEnds =>
        LET rs == Collected(fs, call'.rp, call'.profile, <<>>, remote, netUp, envTree)
            merged == MergeAll([i \in 1..Len(rs) |-> rs[i].tree])
            salt == Get(merged, <<"fw", "adv", "salt">>, "")
        IN  (/\ \A i \in 1..Len(rs) : rs[i].ok
             /\ SaltLen(salt) = 16
             /\ \A v \in Values(merged) : ~(HasToken(v) /\ DecryptFails(v))
             /\ <<"csm">> \notin DOMAIN merged /\ <<"fw">> \notin DOMAIN merged
             /\ FwTyped(DecryptTree(merged))) =>
            pc' = "check"
      ]_vars

\* the trees of ts merged from the right: ts[1] under the merge of the rest
RECURSIVE MergeRight(_)
MergeRight(ts) ==
    IF ts = <<>> THEN EmptyTree ELSE Merge(Head(ts), MergeRight(Tail(ts)))

\* C20: the tree a build has collected from its sources is the tree of a
\* build over the merge of any first k of them followed by the others; where
\* no source holds a scalar at or along a path another holds a table at, each
\* leaf has the value of the last source that defines it, and merging from
\* the right gives the same tree.
C20_MergeAssociative ==
    (cache.n = Len(sources)) =>
        /\ \A k \in 0..Len(sources) :
              cache.tree = MergeAll(<<MergeAll(SubSeq(sources, 1, k))>>
                                    \o SubSeq(sources, k + 1, Len(sources)))
        /\ (\A i \in 1..Len(sources) : \A p \in DOMAIN sources[i] : NoClash(sources, p)) =>
              /\ cache.tree = MergeRight(sources)
              /\ \A i \in 1..Len(sources) : \A p \in DOMAIN sources[i] :
                    /\ p \in DOMAIN cache.tree
                    /\ cache.tree[p] = sources[Max(Defines(sources, p))][p]

\* C20 witness: a build over A = {a, m: {k, l}}, B = {m: {k}}, C = {a} has
\* collected all three
C20_Witness ==
    /\ Len(sources) = 3 /\ cache.n = 3
    /\ DOMAIN sources[1] = {<<"a">>, <<"m", "k">>, <<"m", "l">>}
    /\ DOMAIN sources[2] = {<<"m", "k">>}
    /\ DOMAIN sources[3] = {<<"a">>}
    /\ cache.tree = (<<"a">> :> "3") @@ (<<"m", "k">> :> "2") @@ (<<"m", "l">> :> "1")

-----------------------------------------------------------------------------
(* C21..C30.                                                               *)

\* a call of init hands its result to the application
InitReturnsOk == pc = "ok" /\ pc' = "idle"

\* C21: over local files, remote documents and an environment that do not
\* change, a call of init that returns a result returns the cs and fw that
\* resolution of its arguments over these sources gives, and the same cs and
\* fw as the call with the same arguments before it returned: the earlier
\* call has no effect on the later one.
C21_InitIsIdempotent ==
    [][InitReturnsOk =>
        LET r == Resolved(call.rp, call.profile, remote)
        IN  /\ r.st = "ok" /\ SameContent(config, r.val)
            /\ (published.csPass > 0 /\ pubArgs = call) => SameContent(published', published)
      ]_vars

\* C21 witness: a second call of init with the arguments of the first is
\* returning the content the first returned, local files, a published
\* document and the environment all taking part
C21_Witness ==
    /\ pc = "ok" /\ published.csPass = 2 /\ config.csPass = 4 /\ pubArgs = call
    /\ SameContent(config, published)
    /\ Get(config.cs, <<"", "db", "url">>, "") = "r"
    /\ Get(config.cs, <<"", "db", "pool">>, "") = "5"
    /\ Get(config.cs, <<"", "x">>, "") = "env"

\* C22: the step of a remote-augmented pass that asks the center for its
\* documents gets the names <app-id>-default and <app-id>-<profile>, in that
\* order, of the app id the first pass found and the profile of the call.
C22_DocumentsOfAppIdAndProfile ==
    [][(pc = "urls" /\ pc' = "build") =>
        urls' = <<DocName(config.fw.app_id, "default"),
                  DocName(config.fw.app_id, call.profile)>>
      ]_vars

\* the merged tree of the ending pass
PassMerged == MergeAll(PassTrees)

\* a value of the merged tree as the result of the ending pass holds it:
\* decrypted when the pass has a salt
AsReturned(v) ==
    IF Get(PassMerged, <<"fw", "adv", "salt">>, "") = "" THEN v ELSE Plain(v)

\* the framework section of the ending pass has the fields of the fw branch
FwIsFwBranch ==
    LET m == PassMerged
        fw == config'.fw
    IN  /\ fw.app_id = AsReturned(Get(m, <<"fw", "app", "id">>, ""))
        /\ fw.cc_on = (\E p \in DOMAIN m : IsPrefix(<<"fw", "conf_center">>, p))
        /\ fw.cc_kind = AsReturned(Get(m, <<"fw", "conf_center", "kind">>, ""))
        /\ fw.cc_format = AsReturned(Get(m, <<"fw", "conf_center", "format">>, ""))
        /\ fw.salt = AsReturned(Get(m, <<"fw", "adv", "salt">>, ""))

\* every csm entry is in the workspace map under its module name
CsmUnderModuleNames ==
    \A p \in DOMAIN PassMerged :
        p[1] = "csm" =>
            /\ Tail(p) \in DOMAIN config'.cs
            /\ config'.cs[Tail(p)] = AsReturned(PassMerged[p])

\* the cs branch is in the workspace map under the key ""
CsUnderDefault ==
    \A p \in DOMAIN PassMerged :
        p[1] = "cs" =>
            /\ InDefault(p) \in DOMAIN config'.cs
            /\ config'.cs[InDefault(p)] = AsReturned(PassMerged[p])

\* the merged tree has a csm entry whose module name is ""
CsmNamesDefault == \E p \in DOMAIN PassMerged : IsPrefix(<<"csm", "">>, p)

\* C23 as stated: at the end of every pass the workspace map holds the cs
\* branch under "" and every csm entry under its module name and nothing
\* else, and fw has the fields of the fw branch.
C23_SplitOfMergedTree ==
    [][PassDone =>
        /\ CsUnderDefault
        /\ CsmUnderModuleNames
        /\ \A q \in DOMAIN config'.cs :
              \/ <<"csm">> \o q \in DOMAIN PassMerged
              \/ q[1] = "" /\ <<"cs">> \o Tail(q) \in DOMAIN PassMerged
        /\ FwIsFwBranch
      ]_vars

\* C23 amended: at the end of every pass the workspace map holds every csm
\* entry under its module name and, unless csm has an entry named "", the cs
\* branch under ""; it holds nothing else, and fw has the fields of the fw
\* branch.
C23_SplitOfMergedTreeCsmFirst ==
    [][PassDone =>
        /\ ~CsmNamesDefault => CsUnderDefault
        /\ CsmUnderModuleNames
        /\ \A q \in DOMAIN config'.cs :
              \/ <<"csm">> \o q \in DOMAIN PassMerged
              \/ ~CsmNamesDefault /\ q[1] = "" /\ <<"cs">> \o Tail(q) \in DOMAIN PassMerged
        /\ FwIsFwBranch
      ]_vars

\* C23 witness: a pass over a tree with a cs branch, a csm entry m1 and an fw
\* branch has ended with the three where they belong
C23_Witness ==
    /\ pc = "check" /\ fs.def = "cc" /\ call = [rp |-> TRUE, profile |-> ""]
    /\ Get(config.cs, <<"", "db", "pool">>, "") = "5"
    /\ Get(config.cs, <<"m1", "url">>, "") = EncGood
    /\ config.fw.app_id = "app" /\ config.fw.cc_on
    /\ \A q \in DOMAIN config.cs : q[1] \in {"", "m1"}

\* a step that ends a pass all of whose sources were collected
PassBuilt ==
    /\ pc \in {"idle", "build"} /\ pc' /= pc
    /\ fault' = NoFault
    /\ LET rs == Collected(fs, call'.rp, call'.profile,
                           IF pc = "build" THEN urls ELSE <<>>, remote, netUp, envTree)
       IN  \A i \in 1..Len(rs) : rs[i].ok

\* the merged tree holds something at or below the top-level key b
HasBranch(b) == \E p \in DOMAIN PassMerged : p[1] = b

C25_DefaultFileAlwaysLoaded ==
    pc \in {"check", "finish", "ok"} => (call.rp /\ fs.def \notin {"absent", "bad"})

\* the states the model gives the file conf-<profile>
ProfileFileStates == {"absent", "bad", "over", "csmdef"}

\* C26: a pass of a call that names a directory and a non-empty profile fails
\* when the file conf-<profile> is absent; a pass of a call with an empty
\* profile ends as it would end whatever the state of a file conf-<profile>
\* were: the file is not read.
C26_ProfileFileRequiredIffProfile ==
    [][(pc \in {"idle", "build"} /\ pc' /= pc) =>
        /\ (call'.rp /\ call'.profile /= "" /\ fs.prof = "absent") =>
              pc' = "err" /\ error' /= "none" /\ config' = NoConfig
        /\ (call'.rp /\ call'.profile = "" /\ fault' = NoFault) =>
              \A st \in ProfileFileStates :
                  LET alt == BuildConfig(Collected([fs EXCEPT !.prof = st], TRUE, "",
                                                   IF pc = "build" THEN urls ELSE <<>>,
                                                   remote, netUp, envTree), passes')
                  IN  /\ alt.st = "ok" <=> pc' \in {"check", "finish"}
                      /\ alt.st = "ok" => config' = alt.val
                      /\ alt.st = "err" => error' = alt.err
      ]_vars

\* C26 witness: init with a directory that holds conf-default but no conf-dev
\* has failed under profile dev
C26_Witness ==
    /\ pc = "err" /\ call = [rp |-> TRUE, profile |-> "dev"]
    /\ fs = [def |-> "plain", prof |-> "absent"] /\ passes = 1

\* the first source of the ending pass that fails to collect is malformed: a
\* local file or a published document whose content does not parse
FirstFailureIsMalformed ==
    LET loc == LocalSources(call'.rp, call'.profile)
        names == IF pc = "build" THEN urls ELSE <<>>
        rs == Collected(fs, call'.rp, call'.profile, names, remote, netUp, envTree)
    IN  /\ \E i \in 1..Len(rs) : ~rs[i].ok
        /\ LET i == FirstFailure(rs)
           IN  \/ i <= Len(loc) /\ fs[loc[i]] = "bad"
               \/ /\ i > Len(loc) /\ i <= Len(loc) + Len(names) /\ netUp
                  /\ names[i - Len(loc)] \in DOMAIN remote
                  /\ remote[names[i - Len(loc)]] = "bad"

\* C27: a pass that stops at a malformed source, local file or remote
\* document, ends with an error of the FormatError kind.
C27_MalformedIsFormatError ==
    [][(pc \in {"idle", "build"} /\ pc' /= pc /\ fault' = NoFault
        /\ FirstFailureIsMalformed) =>
        pc' = "err" /\ error' = "FormatError"]_vars

\* the words of a value: what a match query compares with a field
Words(v) == {Pieces(v)[i] : i \in {j \in 1..Len(Pieces(v)) : IsWord(Pieces(v)[j])}}

\* the record matches the pair (k, v) of a query map
MatchesPair(r, k, v) == k \in DOMAIN r /\ r[k] \in Words(v)

\* a call of multi_search returns
Searched == search'.index = search.index /\ search' /= search

\* C28: a multi_search that returns records returns only records that match
\* every pair of its map, and returns the same records whatever the order
\* the pairs of the map are written in.
C28_MultiSearchMatchesEveryPair ==
    [][(Searched /\ search'.out.st = "ok") =>
        /\ \A r \in search'.out.hits :
              \A k \in DOMAIN search'.q : MatchesPair(r, k, search'.q[k])
        /\ \A ord \in Orders(DOMAIN search'.q) :
              RawSearch(search.index, MultiSearchQuery(search'.q, ord)) = search'.out
      ]_vars

C30_StalledFetchEnds ==
    /\ (pc = "build") ~> (pc \in {"finish", "err", "panic", "wait"})
    /\ (pc = "wait") ~> (pc \in {"finish", "err", "panic"})

-----------------------------------------------------------------------------
(* C31..C34.                                                               *)

\* C31: a call of init runs its first pass when it starts and at most one
\* more, right after the check of the first result; the result of that
\* second pass is the whole result of the call, its framework section the
\* one the second pass merged, also where a remote document names another
\* application or center; after the second pass init starts no pass and
\* issues no request.
C31_AtMostTwoPasses ==
    [][/\ passes' /= passes => (pc \in {"idle", "urls"} /\ passes' = passes + 1)
       /\ (pc' = "urls" /\ pc /= "urls") => pc = "check"
       /\ (pc' = "check" /\ pc /= "check") => pc = "idle"
       /\ (pc' = "build" /\ pc /= "build") => pc = "urls"
       /\ (pc = "build" /\ pc' /= "build") => pc' \in {"finish", "err", "panic"}
       /\ (pc = "build" /\ pc' = "finish") =>
              /\ config'.csPass = passes /\ config'.fwPass = passes
              /\ FwIsFwBranch /\ CsmUnderModuleNames
       /\ pc \in {"finish", "ok"} =>
              /\ passes' = passes /\ netCalls' <= netCalls /\ urls' = urls
              /\ pc' \in {"finish", "ok", "err", "idle"}
              /\ pc' = "ok" => config' = config
      ]_vars

\* C31 witness: init is returning the result of a second pass whose remote
\* document named another application and another kind of center
C31_Witness ==
    /\ pc = "ok" /\ config.csPass = passes /\ config.fwPass = passes
    /\ config.fw.app_id = "other" /\ config.fw.cc_kind = "etcd"
    /\ netCalls = 3

\* C32: the polling loop of a remote-augmented pass is spawned in the step
\* that obtains the URLs, before any source is fetched; the build that
\* follows leaves it running whether it succeeds, fails or panics; a pass
\* refused for its format or kind, or whose fetch_conf_urls fails, ends in
\* an error without a loop spawned.
C32_LoopSpawnedBeforeBuild ==
    [][/\ loops' /= loops =>
              /\ pc = "urls" /\ pc' = "build" /\ loops' = loops + 1
              /\ urls' = RemoteDocs(config.fw.app_id, call.profile)
       /\ (pc = "urls" /\ pc' = "build") => (loops' = loops + 1 /\ netCalls' = 1)
       /\ (pc = "urls" /\ pc' /= "urls" /\
           (~FormatSupported(config.fw.cc_format) \/ ~KindSupported(config.fw.cc_kind)
                \/ ~netUp)) =>
              /\ pc' = "err" /\ loops' = loops
              /\ netCalls' = IF FormatSupported(config.fw.cc_format)
                                  /\ KindSupported(config.fw.cc_kind) THEN 1 ELSE 0
       /\ (pc = "build" /\ pc' /= "build") =>
              /\ loops' = loops /\ loops >= 1
              /\ pc' \in {"finish", "err", "panic"}
      ]_vars

\* C32 witness: the second pass of the first call failed while it fetched or
\* built its sources, and the loop it spawned is running
C32_Witness ==
    /\ pc = "err" /\ passes = 2 /\ loops = 1 /\ netCalls >= 2
    /\ error = "Wrap"

\* the part of a workspace map under the module name m
ModuleOf(ws, m) == Sub(ws, <<m>>)

\* a branch of the merged tree with its values as the ending pass returns them
BranchAsReturned(pre) ==
    LET b == Sub(PassMerged, pre)
    IN  [p \in DOMAIN b |-> AsReturned(b[p])]

\* C33: at the end of a pass whose merged tree has a csm entry named "",
\* the default-module ("") workspace configuration is that entry and holds
\* nothing of the cs branch; at the end of a pass without such an entry it
\* is the cs branch, whatever other modules csm names.
C33_CsmDefaultReplacesCs ==
    [][PassDone =>
        ModuleOf(config'.cs, "") =
            IF CsmNamesDefault THEN BranchAsReturned(<<"csm", "">>)
                               ELSE BranchAsReturned(<<"cs">>)
      ]_vars

\* C33 witness: a pass over a cs branch and a csm entry named "" has ended;
\* the default module holds the entry's key and none of the keys of cs
C33_Witness ==
    /\ pc = "check" /\ fs = [def |-> "plain", prof |-> "csmdef"] /\ call.profile = "dev"
    /\ ModuleOf(config.cs, "") = (<<"x">> :> "mod")
    /\ Get(config.cs, <<"m1", "url">>, "") = EncGood

\* C33 witness of the other case: csm names only the module m1 and the
\* default module holds the cs branch
C33_WitnessOtherModule ==
    /\ pc = "check" /\ fs.def = "plain" /\ call = [rp |-> TRUE, profile |-> ""]
    /\ ModuleOf(config.cs, "") = Sub(BaseTree, <<"cs">>)
    /\ Get(config.cs, <<"m1", "url">>, "") = EncGood

-----------------------------------------------------------------------------
(* del_confirm and hdel_confirm beside other clients of the server.        *)

otherVars == <<fs, envTree, remote, netUp, pc, call, config, error, urls,
               netCalls, passes, loops, tick, published, pubArgs, fault,
               sources, cache, search>>

\* the call returns r to its caller
Returns(r) == [redis EXCEPT !.pc = "idle", !.out = r]

\* lines 103-105 and 203-205: del_confirm(key) or hdel_confirm(key, field) is
\* called and reaches the get_connection of its del or hdel
DelConfirm(e) ==
    /\ redis.pc = "idle"
    /\ redis' = [redis EXCEPT !.pc = "delconn", !.arg = e, !.out = "none",
                              !.recreated = FALSE]
    /\ UNCHANGED otherVars

\* get_connection().await? of del, hdel, exists and hexists: a connection of
\* the pool, or the error returned at once
GetConnection(ok) ==
    /\ redis.pc \in {"delconn", "exconn"}
    /\ redis' = IF ok
                THEN [redis EXCEPT !.pc = IF @ = "delconn" THEN "delcmd" ELSE "excmd"]
                ELSE Returns("Err")
    /\ UNCHANGED otherVars

\* lines 105 and 205, the command of del or hdel: done, the loop is entered;
\* failed, the error is returned, the server having run the command or not
DelCommand(ok, applied) ==
    /\ redis.pc = "delcmd"
    /\ ok => applied
    /\ LET keys == IF applied THEN Removed(redis.keys, redis.arg) ELSE redis.keys
       IN  redis' = IF ok THEN [redis EXCEPT !.keys = keys, !.pc = "exconn"]
                          ELSE [Returns("Err") EXCEPT !.keys = keys]
    /\ UNCHANGED otherVars

\* lines 106-116 and 206-216, the command of exists or hexists and the match
\* on its result: Ok(false) returns Ok, Err returns it, Ok(true) loops
ExistsCommand(ok) ==
    /\ redis.pc = "excmd"
    /\ redis' = IF ~ok THEN Returns("Err")
                ELSE IF Exists(redis.keys, redis.arg)
                     THEN [redis EXCEPT !.pc = "exconn"]
                     ELSE Returns("Ok")
    /\ UNCHANGED otherVars

\* another client sets the key or the field
WriterSet(e) ==
    /\ e \notin redis.keys
    /\ redis' = [redis EXCEPT
                    !.keys = @ \cup {e},
                    !.recreated = @ \/ (e = redis.arg /\ redis.pc \in {"exconn", "excmd"})]
    /\ UNCHANGED otherVars

\* another client deletes the key or the field, or the key expires
OtherRemoves(e) ==
    /\ e \in redis.keys
    /\ redis' = [redis EXCEPT !.keys = @ \ {e}]
    /\ UNCHANGED otherVars

CacheCallMoves ==
    \/ \E ok \in BOOLEAN : GetConnection(ok)
    \/ \E ok, applied \in BOOLEAN : DelCommand(ok, applied)
    \/ \E ok \in BOOLEAN : ExistsCommand(ok)

CacheNext ==
    \/ \E e \in Entries : DelConfirm(e)
    \/ \E ok \in BOOLEAN : GetConnection(ok)
    \/ \E ok, applied \in BOOLEAN : DelCommand(ok, applied)
    \/ \E ok \in BOOLEAN : ExistsCommand(ok)
    \/ \E e \in Entries : WriterSet(e)
    \/ \E e \in Entries : OtherRemoves(e)

\* the runtime keeps polling the future of a call and the server answers
\* every command it is sent, with a result or an error
CacheSpec == MergeInit /\ [][CacheNext]_vars /\ WF_vars(CacheCallMoves)

\* the call of a confirmed delete is between its first and its last await
InConfirm == redis.pc /= "idle"

\* C34: a confirmed delete returns Ok only from an exists check that ran
\* after its delete and found the entry absent; it returns Err from the
\* get_connection or the command of the delete or of an exists check that
\* failed, and from nothing else; an exists check that finds the entry goes
\* back to checking; and a call returns unless another client has set the
\* entry again after the delete.
C34_ConfirmedDelete ==
    /\ [][/\ (redis'.out = "Ok" /\ redis.out /= "Ok") =>
                /\ redis.pc = "excmd" /\ ~Exists(redis.keys, redis.arg)
                /\ redis'.pc = "idle" /\ redis'.keys = redis.keys
          /\ (redis'.pc = "excmd" /\ redis.pc /= "excmd") => redis.pc = "exconn"
          /\ (redis'.pc = "exconn" /\ redis.pc /= "exconn") =>
                \/ redis.pc = "delcmd" /\ ~Exists(redis'.keys, redis.arg)
                \/ redis.pc = "excmd" /\ Exists(redis.keys, redis.arg)
          /\ (redis'.out = "Err" /\ redis.out /= "Err") =>
                /\ redis.pc \in {"delconn", "delcmd", "exconn", "excmd"}
                /\ redis'.pc = "idle"
          /\ (InConfirm /\ redis'.pc = "idle") => redis'.out \in {"Ok", "Err"}
          /\ (redis.pc = "excmd" /\ Exists(redis.keys, redis.arg) /\ redis'.pc /= "excmd") =>
                \/ redis'.pc = "exconn" /\ redis'.out = "none"
                \/ redis'.pc = "idle" /\ redis'.out = "Err"
         ]_vars
    /\ InConfirm ~> (~InConfirm \/ redis.recreated)

\* C34 witness: a call returned Ok after another client had set the entry
\* again behind its delete, and the entry was then removed
C34_Witness ==
    /\ redis.pc = "idle" /\ redis.out = "Ok" /\ redis.recreated
    /\ redis.arg = <<"h1", "f1">>

\* every call of a confirmed delete returns: not a property of the code, a
\* call whose entry another client sets again checks it for ever
DelConfirmAlwaysReturns == InConfirm ~> ~InConfirm
=============================================================================
